---------------------------- MODULE Spec2Model ----------------------------
(***************************************************************************)
(* Two audio-reactive browser scripts of proceduralVisuals:                *)
(*   src/tool2.js          the wireframe-sphere page  (page = "sphere")    *)
(*   src/unnamed/part_000  the rose-canvas page       (page = "rose")      *)
(* Both scripts declare the top-level bindings audioContext and analyser   *)
(* with let, so they cannot be loaded into one page: a behaviour is the    *)
(* life of ONE page, chosen in Init.  The bindings the two scripts share   *)
(* by name (startButton, audioContext, analyser) are shared variables.     *)
(*                                                                         *)
(* Every action is one host callback run to completion (JavaScript runs a  *)
(* task and the microtasks it queues without interleaving): the settlement *)
(* of getUserMedia's promise includes the continuations awaiting it.       *)
(*                                                                         *)
(* Numbers.  JavaScript numbers are floats.  Quantities computed afresh    *)
(* from a snapshot (averages, volume, delay, hue) are kept as exact        *)
(* fractions <<numerator, denominator>>.  The quantities that accumulate   *)
(* over ticks (pointer coordinates, rotation) are fixed-point: integers in *)
(* units of 1/Scale, every result rounded to the nearest unit, which is    *)
(* finite precision as in the float arithmetic of the code.                *)
(***************************************************************************)
EXTENDS Integers, Sequences, FiniteSets, TLC

(***************************** bounds ***************************************)
\* clicks on the start control that the user makes at most
MaxClicks == 2
\* fixed-point resolution: units per twentieth
Resolution == 1
\* readings of performance.now() saturate here
MaxTime == 2
\* longest array getPitchColor is applied to on its own
MaxLen == 4
\* window.innerWidth and window.innerHeight of the modelled viewport
InnerWidth == 2
InnerHeight == 2

(***************************** program constants ****************************)
\* analyser.fftSize set by initAudio
SphereFftSize == 256
\* analyser.fftSize set by the rose click handler
RoseFftSize == 2048
\* fftSize of a freshly created AnalyserNode (Web Audio default)
DefaultFftSize == 2048

\* the value of a binding that was never assigned
Undefined == [undefined |-> TRUE]

\* the value 1.0 in fixed point: Resolution units per twentieth, the step of
\* the easing in animate
Scale == 20 * Resolution

VARIABLES
    page,               \* which script the page runs
    startButtonDisplay, \* startButton.style.display
    clicks,             \* click events delivered to the start control
    audioContexts,      \* AudioContext objects constructed so far
    analyser,           \* the analyser binding: Undefined or [fftSize |-> n]
    pending,            \* getUserMedia requests not yet settled
    granted,            \* getUserMedia requests resolved with a stream
    rejected,           \* getUserMedia requests rejected
    consoleErrors,      \* console.error calls made by the script
    escaped,            \* an exception or rejection reached the host unhandled
    rafPending,         \* animation-frame callbacks requested and not yet run
    tickParity,         \* number of animation ticks begun, modulo 2
    ticked,             \* some animation tick has begun
    frequencyData,      \* sphere: the frequencyData binding (Undefined or bytes)
    renderers,          \* sphere: WebGLRenderer canvases appended to the body
    sphere,             \* sphere: the sphere binding (Undefined or the mesh)
    camera,             \* sphere: the camera binding (Undefined or [fov])
    listening,          \* sphere: onMouseMove is registered on window
    mouseX, mouseY,     \* sphere: pointer state (fixed-point)
    volume,             \* rose: the volume binding (fraction)
    lastUpdateTime,     \* rose: the lastUpdateTime binding
    timers,             \* rose: delays (fractions) of the pending setTimeout calls
    snapshotLens,       \* rose: lengths of the frequency and time arrays last read
    dataArray,          \* rose: the time-domain array drawAnimation read last
    color,              \* rose: the colour drawAnimation computed last
    canvas              \* rose: what the last tick drew on roseCanvas

vars == <<page, startButtonDisplay, clicks, audioContexts, analyser, pending,
          granted, rejected, consoleErrors, escaped, rafPending, tickParity,
          ticked, frequencyData, renderers, sphere, camera, listening,
          mouseX, mouseY, volume, lastUpdateTime, timers, snapshotLens,
          dataArray, color, canvas>>

sphereVars == <<frequencyData, renderers, sphere, camera, listening, mouseX, mouseY>>
roseVars == <<volume, lastUpdateTime, timers, snapshotLens, dataArray, color, canvas>>

(***************************** arithmetic ***********************************)
Abs(x) == IF x < 0 THEN -x ELSE x
Sign(x) == IF x < 0 THEN -1 ELSE IF x > 0 THEN 1 ELSE 0

\* a / b rounded to the nearest integer, halves away from zero (b > 0)
RoundDiv(a, b) == Sign(a) * ((2 * Abs(a) + b) \div (2 * b))

\* equality of fractions <<n, d>> with d > 0
FracEq(p, q) ==
    IF p[2] = q[2] THEN p[1] = q[1] ELSE p[1] * q[2] = q[1] * p[2]

(***************************** typed arrays *********************************)
\* A Uint8Array is kept run-length encoded: [runs |-> <<r1, ..., rm>>], run r
\* standing for r.n > 0 consecutive elements of value r.v.  The encoding
\* loses nothing; the operators below compute on it what the code computes
\* on the elements, from the left.
Array(runs) == [runs |-> SelectSeq(runs, LAMBDA r : r.n > 0)]
Fill(n, v) == Array(<<[v |-> v, n |-> n]>>)
\* lo everywhere but hi at element k (1 <= k <= n, counted from 1)
Spike(n, k, lo, hi) ==
    Array(<<[v |-> lo, n |-> k - 1], [v |-> hi, n |-> 1], [v |-> lo, n |-> n - k]>>)
\* the array with the elements of the sequence s
FromSeq(s) == [runs |-> [i \in 1..Len(s) |-> [v |-> s[i], n |-> 1]]]

\* new Uint8Array(n)
Uint8Array(n) == Fill(n, 0)

RECURSIVE LengthFrom(_, _)
LengthFrom(runs, i) ==
    IF i > Len(runs) THEN 0 ELSE runs[i].n + LengthFrom(runs, i + 1)

\* array.length
Length(array) == LengthFrom(array.runs, 1)

\* element k of the array, k counted from 0
RECURSIVE AtFrom(_, _, _)
AtFrom(runs, i, k) ==
    IF k < runs[i].n THEN runs[i].v ELSE AtFrom(runs, i + 1, k - runs[i].n)

At(array, k) == AtFrom(array.runs, 1, k)

\* the runs of the elements after the first k
RECURSIVE DropFrom(_, _, _)
DropFrom(runs, i, k) ==
    IF i > Len(runs) THEN <<>>
    ELSE IF k >= runs[i].n THEN DropFrom(runs, i + 1, k - runs[i].n)
    ELSE <<[v |-> runs[i].v, n |-> runs[i].n - k]>> \o SubSeq(runs, i + 1, Len(runs))

\* dataArray.reduce((a, b) => a + b, 0): a run adds its value n times
RECURSIVE SumFrom(_, _, _)
SumFrom(runs, i, acc) ==
    IF i > Len(runs) THEN acc
    ELSE SumFrom(runs, i + 1, acc + runs[i].v * runs[i].n)

reduceSum(array) == SumFrom(array.runs, 1, 0)

\* frequencyBinCount taken to be the FFT size itself
fftSizeAsBinCount(an) == an.fftSize

\* AnalyserNode.frequencyBinCount: half the FFT size (Web Audio API)
frequencyBinCount(an) == an.fftSize \div 2

\* What getByteFrequencyData can deliver into n buckets: silence, a single
\* loud bucket in the middle, every bucket saturated.
FrequencySnapshots(n) ==
    {Fill(n, 0), Spike(n, n \div 2 + 1, 0, 255), Fill(n, 255)}

\* What getByteTimeDomainData can deliver into n samples: silence (the flat
\* midline 128), one peak in the middle, two equal peaks (the second one the
\* last sample), a maximum at the last sample.
TimeDomainSnapshots(n) ==
    {Fill(n, 128), Spike(n, n \div 2 + 1, 128, 255),
     Array(<<[v |-> 128, n |-> n \div 4], [v |-> 200, n |-> 1],
             [v |-> 128, n |-> n - (n \div 4) - 2], [v |-> 200, n |-> 1]>>),
     Spike(n, n, 128, 129)}

\* analyser.getByteFrequencyData(array) / getByteTimeDomainData(array) when
\* the analyser delivers snap: the first snap.length elements of array are
\* overwritten, the others are kept
getByteData(array, snap) ==
    Array(snap.runs \o DropFrom(array.runs, 1, Length(snap)))

(***************************** sphere page: src/tool2.js ********************)
\* getAverageFrequency: sum / dataArray.length, as a fraction
getAverageFrequency(array) == <<reduceSum(array), Length(array)>>

\* the smoothing factor 0.05 of animate, as a fraction
SmoothingFactor == <<5, 100>>

\* old += (target - old) * 0.05, in fixed point
Ease(old, target) ==
    old + RoundDiv((target - old) * SmoothingFactor[1], SmoothingFactor[2])

\* new THREE.Mesh(geometry, material): no rotation, unit scale, white
NewSphere ==
    [rotation |-> [x |-> 0, y |-> 0], scale |-> <<1, 1>>,
     color |-> [h |-> <<0, 1>>, s |-> 0, l |-> <<1, 1>>]]

\* new THREE.PerspectiveCamera(75, aspect, 0.1, 1000); camera.position.z = 10
NewCamera == [fov |-> <<75, 1>>, z |-> 10]

\* if (analyser) analyser.getByteFrequencyData(frequencyData): the guard
\* passes whenever the analyser exists, and the call throws a TypeError when
\* its argument is undefined
readThrows(an, fd) == an # Undefined /\ fd = Undefined

\* (Below, a value computed once and used several times is bound by \E over
\* the singleton set holding it.)

\* The statements of animate after requestAnimationFrame(animate), on the
\* bindings given; snap is what the analyser delivers in this tick.  A throw
\* ends the tick where it happens.
animate(an, fd, sph, cam, mx, my, snap) ==
    IF readThrows(an, fd)
    THEN [threw |-> TRUE, frequencyData |-> fd, sphere |-> sph, camera |-> cam]
    ELSE
      LET data == IF an # Undefined THEN getByteData(fd, snap) ELSE fd
          avg == getAverageFrequency(data)
          \* 1 + averageFrequency / 128
          scale == <<128 * avg[2] + avg[1], 128 * avg[2]>>
          \* setHSL(averageFrequency / 256, 1, 0.5)
          hsl == [h |-> <<avg[1], 256 * avg[2]>>, s |-> 1, l |-> <<1, 2>>]
          \* 750 + averageFrequency * 0.01
          fov == <<75000 * avg[2] + avg[1], 100 * avg[2]>>
          lit == IF an # Undefined
                 THEN [sph EXCEPT !.scale = scale, !.color = hsl]
                 ELSE sph
          rot == [x |-> Ease(sph.rotation.x, my), y |-> Ease(sph.rotation.y, mx)]
      IN [threw |-> FALSE,
          frequencyData |-> data,
          sphere |-> [lit EXCEPT !.rotation = rot],
          camera |-> IF an # Undefined THEN [cam EXCEPT !.fov = fov] ELSE cam]

\* the snapshots the analyser can deliver to a tick that reads into fd
Deliverable(an, fd) ==
    IF an = Undefined \/ fd = Undefined THEN {Uint8Array(0)}
    ELSE FrequencySnapshots(IF Length(fd) < frequencyBinCount(an)
                            THEN Length(fd) ELSE frequencyBinCount(an))

\* the button hidden before initThreeJS is called
hideBeforeInit(threw) == "none"

\* initThreeJS(); startButton.style.display = 'none': the assignment is
\* reached only if initThreeJS returned without throwing
hideAfterInit(threw) == IF threw THEN startButtonDisplay ELSE "none"

\* initThreeJS followed by the rest of the click handler: a fresh scene,
\* camera, renderer and sphere, the mousemove listener (registering the same
\* function again adds nothing), the first call of animate, and the hiding
\* of the start control.
initThreeJS(an, fd) ==
    \E snap \in Deliverable(an, fd) :
      \E r \in {animate(an, fd, NewSphere, NewCamera, mouseX, mouseY, snap)} :
         /\ renderers' = renderers + 1
         /\ listening' = TRUE
         /\ rafPending' = rafPending + 1
         /\ tickParity' = 1 - tickParity
         /\ ticked' = TRUE
         /\ frequencyData' = r.frequencyData
         /\ sphere' = r.sphere
         /\ camera' = r.camera
         /\ escaped' = (escaped \/ r.threw)
         /\ startButtonDisplay' = hideAfterInit(r.threw)

\* click on the start control: the handler runs initAudio up to its await
SphereClick ==
    /\ page = "sphere"
    /\ startButtonDisplay # "none"
    /\ clicks < MaxClicks
    /\ clicks' = clicks + 1
    /\ audioContexts' = audioContexts + 1
    /\ analyser' = [fftSize |-> DefaultFftSize]
    /\ pending' = pending + 1
    /\ UNCHANGED <<page, startButtonDisplay, granted, rejected, consoleErrors,
                   escaped, rafPending, tickParity, ticked>>
    /\ UNCHANGED sphereVars
    /\ UNCHANGED roseVars

\* getUserMedia resolves: the try block of initAudio, then the handler's rest
SphereGrant ==
    /\ page = "sphere"
    /\ pending > 0
    /\ pending' = pending - 1
    /\ granted' = granted + 1
    /\ LET an == [analyser EXCEPT !.fftSize = SphereFftSize]
       IN /\ analyser' = an
          /\ initThreeJS(an, Uint8Array(frequencyBinCount(an)))
    /\ UNCHANGED <<page, clicks, audioContexts, rejected, consoleErrors,
                   mouseX, mouseY>>
    /\ UNCHANGED roseVars

\* getUserMedia rejects: the catch block of initAudio, then the handler's rest
SphereReject ==
    /\ page = "sphere"
    /\ pending > 0
    /\ pending' = pending - 1
    /\ rejected' = rejected + 1
    /\ consoleErrors' = consoleErrors + 1
    /\ initThreeJS(analyser, frequencyData)
    /\ UNCHANGED <<page, clicks, audioContexts, analyser, granted, mouseX, mouseY>>
    /\ UNCHANGED roseVars

\* the host runs one requested animation-frame callback: animate
SphereFrame ==
    /\ page = "sphere"
    /\ rafPending > 0
    /\ \E snap \in Deliverable(analyser, frequencyData) :
         \E r \in {animate(analyser, frequencyData, sphere, camera,
                            mouseX, mouseY, snap)} :
            /\ frequencyData' = r.frequencyData
            /\ sphere' = r.sphere
            /\ camera' = r.camera
            /\ escaped' = (escaped \/ r.threw)
    \* this callback is consumed and requestAnimationFrame(animate) adds one
    /\ rafPending' = (rafPending - 1) + 1
    /\ tickParity' = 1 - tickParity
    /\ ticked' = TRUE
    /\ UNCHANGED <<page, startButtonDisplay, clicks, audioContexts, analyser,
                   pending, granted, rejected, consoleErrors, renderers,
                   listening, mouseX, mouseY>>
    /\ UNCHANGED roseVars

\* pointer positions the host reports: two opposite corners of the viewport
PointerEvents ==
    {[clientX |-> 0, clientY |-> InnerHeight],
     [clientX |-> InnerWidth, clientY |-> 0]}

\* onMouseMove, in fixed point
onMouseMove(event) ==
    /\ mouseX' = RoundDiv(event.clientX * 2 * Scale, InnerWidth) - Scale
    /\ mouseY' = (-RoundDiv(event.clientY * 2 * Scale, InnerHeight)) + Scale

SphereMouseMove ==
    /\ page = "sphere"
    /\ listening
    /\ \E event \in PointerEvents : onMouseMove(event)
    /\ UNCHANGED <<page, startButtonDisplay, clicks, audioContexts, analyser,
                   pending, granted, rejected, consoleErrors, escaped,
                   rafPending, tickParity, ticked, frequencyData, renderers,
                   sphere, camera, listening>>
    /\ UNCHANGED roseVars

(***************************** rose page: src/unnamed/part_000 **************)
numPetals == 10

\* roseCanvas before anything is drawn
Blank == [petals |-> 0]

\* Math.max(...dataArray); -Infinity (the maximum of nothing) is modelled
\* as -1, below every byte
RECURSIVE MaxFrom(_, _, _)
MaxFrom(runs, i, acc) ==
    IF i > Len(runs) THEN acc
    ELSE MaxFrom(runs, i + 1, IF runs[i].v > acc THEN runs[i].v ELSE acc)

MathMax(array) == MaxFrom(array.runs, 1, -1)

\* the index of the last element equal to v, or -1
RECURSIVE LastIndexFrom(_, _, _, _, _)
LastIndexFrom(runs, v, i, offset, found) ==
    IF i > Len(runs) THEN found
    ELSE LastIndexFrom(runs, v, i + 1, offset + runs[i].n,
                       IF runs[i].v = v THEN offset + runs[i].n - 1 ELSE found)

lastIndexOf(array, v) == LastIndexFrom(array.runs, v, 1, 0, -1)

\* dataArray.indexOf(v): the index, counted from 0, of the first element
\* equal to v, scanning from the left; -1 when there is none
RECURSIVE IndexFrom(_, _, _, _)
IndexFrom(runs, v, i, offset) ==
    IF i > Len(runs) THEN -1
    ELSE IF runs[i].v = v THEN offset
    ELSE IndexFrom(runs, v, i + 1, offset + runs[i].n)

indexOf(array, v) == IndexFrom(array.runs, v, 1, 0)

\* getPitchColor: hsl(hue, 100%, 50%) with hue = (maxIndex / length) * 360,
\* the hue as a fraction
getPitchColor(array) ==
    LET maxIndex == indexOf(array, MathMax(array))
    IN [h |-> <<maxIndex * 360, Length(array)>>, s |-> 100, l |-> 50]

\* updateAudioData: the new value of volume, sum / length / 128.0
updateAudioData(array) == <<reduceSum(array), Length(array) * 128>>

\* the delay kept from going below 0
DelayClamped(vol) ==
    IF 10 * vol[2] - 900 * vol[1] < 0 THEN <<0, vol[2]>>
    ELSE <<10 * vol[2] - 900 * vol[1], vol[2]>>

\* 10 - (volume * 900)
Delay(vol) == <<10 * vol[2] - 900 * vol[1], vol[2]>>

\* a timer set only when its delay is positive
scheduleIfPositive(vol) ==
    timers' = IF Delay(vol)[1] > 0 THEN Append(timers, Delay(vol)) ELSE timers

\* setTimeout(() => requestAnimationFrame(drawAnimation), delay)
scheduleNext(vol) == timers' = Append(timers, Delay(vol))

\* let color = getPitchColor(dataArray), for the array just read
pickColor(array) ==
    /\ dataArray' = array
    /\ color' = getPitchColor(array)

\* drawAnimation at clock reading currentTime: both arrays are created with
\* analyser.frequencyBinCount elements and filled by the analyser; drawRose
\* strokes numPetals ellipses of random geometry (not kept) and
\* drawCenterObject fills a disc of radius 5 * (1 + volume * 3).
drawAnimation(currentTime) ==
    LET bufferLength == frequencyBinCount(analyser)
    IN \E f \in FrequencySnapshots(bufferLength),
          t \in TimeDomainSnapshots(bufferLength) :
         \E freq \in {getByteData(Uint8Array(bufferLength), f)},
            time \in {getByteData(Uint8Array(bufferLength), t)} :
           \E vol \in {updateAudioData(freq)} :
            /\ lastUpdateTime' = currentTime
            /\ volume' = vol
            /\ snapshotLens' = <<Length(freq), Length(time)>>
            /\ pickColor(time)
            /\ canvas' = [petals |-> numPetals,
                          strokeStyle |-> getPitchColor(time),
                          fillStyle |-> getPitchColor(time),
                          radius |-> <<5 * (vol[2] + 3 * vol[1]), vol[2]>>]
            /\ scheduleNext(vol)
            /\ tickParity' = 1 - tickParity
            /\ ticked' = TRUE

\* the button left for the then-callback to hide
hideOnSuccess == UNCHANGED startButtonDisplay

\* startButton.style.display = 'none', the last statement of the click handler
hideOnClick == startButtonDisplay' = "none"

\* click on the start control: context and analyser are created, the request
\* is made, and the button is hidden at once
RoseClick ==
    /\ page = "rose"
    /\ startButtonDisplay # "none"
    /\ clicks' = clicks + 1
    /\ audioContexts' = audioContexts + 1
    /\ analyser' = [fftSize |-> RoseFftSize]
    /\ pending' = pending + 1
    /\ hideOnClick
    /\ UNCHANGED <<page, granted, rejected, consoleErrors, escaped, rafPending,
                   tickParity, ticked>>
    /\ UNCHANGED sphereVars
    /\ UNCHANGED roseVars

\* getUserMedia resolves: the then-callback sets lastUpdateTime and calls
\* drawAnimation, which reads the clock again (it does not run backwards)
RoseGrant ==
    /\ page = "rose"
    /\ pending > 0
    /\ pending' = pending - 1
    /\ granted' = granted + 1
    /\ \E started \in lastUpdateTime..MaxTime :
         \E currentTime \in started..MaxTime : drawAnimation(currentTime)
    /\ UNCHANGED <<page, startButtonDisplay, clicks, audioContexts, analyser,
                   rejected, consoleErrors, escaped, rafPending>>
    /\ UNCHANGED sphereVars

\* getUserMedia rejects: the promise returned by then has no handler, so the
\* rejection reaches the host unhandled and the script does nothing
RoseReject ==
    /\ page = "rose"
    /\ pending > 0
    /\ pending' = pending - 1
    /\ rejected' = rejected + 1
    /\ escaped' = TRUE
    /\ UNCHANGED <<page, startButtonDisplay, clicks, audioContexts, analyser,
                   granted, consoleErrors, rafPending, tickParity, ticked>>
    /\ UNCHANGED sphereVars
    /\ UNCHANGED roseVars

Remove(seq, i) == [j \in 1..(Len(seq) - 1) |-> IF j < i THEN seq[j] ELSE seq[j + 1]]

\* a setTimeout expires (the host treats a delay below 0 as 0): its callback
\* requests an animation frame for drawAnimation
RoseTimer ==
    /\ page = "rose"
    /\ \E i \in 1..Len(timers) : timers' = Remove(timers, i)
    /\ rafPending' = rafPending + 1
    /\ UNCHANGED <<page, startButtonDisplay, clicks, audioContexts, analyser,
                   pending, granted, rejected, consoleErrors, escaped,
                   tickParity, ticked, volume, lastUpdateTime, snapshotLens,
                   dataArray, color, canvas>>
    /\ UNCHANGED sphereVars

\* the host runs one requested animation-frame callback: drawAnimation
RoseFrame ==
    /\ page = "rose"
    /\ rafPending > 0
    /\ rafPending' = rafPending - 1
    /\ \E currentTime \in lastUpdateTime..MaxTime : drawAnimation(currentTime)
    /\ UNCHANGED <<page, startButtonDisplay, clicks, audioContexts, analyser,
                   pending, granted, rejected, consoleErrors, escaped>>
    /\ UNCHANGED sphereVars

(***************************** the page *************************************)
Loaded(p) ==
    /\ page = p
    /\ startButtonDisplay = ""
    /\ clicks = 0
    /\ audioContexts = 0
    /\ analyser = Undefined
    /\ pending = 0
    /\ granted = 0
    /\ rejected = 0
    /\ consoleErrors = 0
    /\ escaped = FALSE
    /\ rafPending = 0
    /\ tickParity = 0
    /\ ticked = FALSE
    /\ frequencyData = Undefined
    /\ renderers = 0
    /\ sphere = Undefined
    /\ camera = Undefined
    /\ listening = FALSE
    /\ mouseX = 0
    /\ mouseY = 0
    /\ volume = <<0, 1>>
    /\ lastUpdateTime = 0
    /\ timers = <<>>
    /\ snapshotLens = <<0, 0>>
    /\ dataArray = Undefined
    /\ color = Undefined
    /\ canvas = Blank

Init == \E p \in {"sphere", "rose"} : Loaded(p)

Next ==
    \/ SphereClick
    \/ SphereGrant
    \/ SphereReject
    \/ SphereFrame
    \/ SphereMouseMove
    \/ RoseClick
    \/ RoseGrant
    \/ RoseReject
    \/ RoseTimer
    \/ RoseFrame

Spec == Init /\ [][Next]_vars

\* The host keeps running requested animation frames and expired timers;
\* clicks, pointer moves and the answer to the permission prompt are up to
\* the user.
FairSpec ==
    Spec /\ WF_vars(SphereFrame) /\ WF_vars(RoseTimer) /\ WF_vars(RoseFrame)

(***************************** getPitchColor on its own *********************)
SampleBytes == {0, 128, 255}

\* every array of 1..MaxLen sample bytes
ShortArrays == UNION {[1..n -> SampleBytes] : n \in 1..MaxLen}

\* lines 84-86 of drawAnimation applied to an arbitrary short array
HueTick ==
    /\ \E a \in ShortArrays : pickColor(FromSeq(a))
    /\ UNCHANGED <<page, startButtonDisplay, clicks, audioContexts, analyser,
                   pending, granted, rejected, consoleErrors, escaped,
                   rafPending, tickParity, ticked, volume, lastUpdateTime,
                   timers, snapshotLens, canvas>>
    /\ UNCHANGED sphereVars

InitHue == Loaded("rose")

SpecHue == InitHue /\ [][HueTick]_vars

(***************************** properties ***********************************)
\* animation callbacks requested from the host and not yet run
CallbacksPending == rafPending + Len(timers)

\* the step runs an animation tick (animate or drawAnimation)
TickStep == tickParity' # tickParity

\* the step settles a getUserMedia request
SettleStep == granted' # granted \/ rejected' # rejected

\* C1: a tick has run or an animation callback is pending only if the
\* audio-access request of the page was granted before.
C1_NoAnimationWithoutGrant ==
    (ticked \/ CallbacksPending > 0) => granted > 0

\* C2: on the sphere page, after the one request made was rejected, exactly one
\* diagnostic has been logged and nothing has reached the host unhandled,
\* whatever frames and pointer moves followed.
C2_RejectionIsQuiet ==
    (page = "sphere" /\ clicks = 1 /\ rejected = 1)
        => (consoleErrors = 1 /\ ~escaped)

\* C3: at most one animation callback is pending at any time, and at most one
\* audio context and one renderer exist, whatever the clicks and outcomes.
C3_OneLoop ==
    /\ CallbacksPending <= 1
    /\ audioContexts <= 1
    /\ renderers <= 1

\* C4: once a request has been granted (and a grant is never undone) the
\* start control is hidden and a callback of the loop is pending; every tick
\* leaves exactly one more callback requested than it consumed; and ticks
\* occur infinitely often: the tick parity is 0 again and again, and 1 again
\* and again, unless nothing is ever granted.
C4_LoopNeverStops ==
    /\ [](granted > 0 => (startButtonDisplay = "none" /\ CallbacksPending >= 1))
    /\ [][granted' >= granted]_vars
    /\ [][TickStep => CallbacksPending'
                        = CallbacksPending + (IF SettleStep THEN 1 ELSE 0)]_vars
    /\ []<>(granted = 0 \/ tickParity = 0)
    /\ []<>(granted = 0 \/ tickParity = 1)

\* a granted page whose loop has gone round: a frame callback ran a tick
C4_Witness ==
    /\ granted > 0
    /\ startButtonDisplay = "none"
    /\ tickParity = 0
    /\ CallbacksPending = 1

\* C5: on the rose page every pending timer was set with the delay
\* 10 - volume * 900 for the volume of the tick that set it, volume is never
\* negative, and a timer whose delay is zero or negative still leads to the
\* next tick.
C5_DelayFollowsVolume ==
    /\ [](page = "rose" =>
            /\ volume[1] >= 0 /\ volume[2] > 0
            /\ \A i \in 1..Len(timers) :
                 FracEq(timers[i],
                        <<10 * volume[2] - 900 * volume[1], volume[2]>>))
    /\ \A p \in {0, 1} :
         [](( /\ timers # <<>>
              /\ \A i \in 1..Len(timers) : timers[i][1] <= 0
              /\ tickParity = p) => <>(tickParity # p))

\* a timer set with a negative delay has expired and requested its frame
C5_Witness ==
    /\ page = "rose"
    /\ volume[1] * 900 > 10 * volume[2]
    /\ timers = <<>>
    /\ rafPending = 1

\* C6, as stated: after a rejection on the sphere page the start control is
\* never hidden.
C6_VisibleAfterRejection ==
    (page = "sphere" /\ rejected > 0) => startButtonDisplay # "none"

\* C6, amended: after a rejection on the sphere page the start control stays
\* visible for as long as no request has been granted.
C6_VisibleUntilGranted ==
    (page = "sphere" /\ rejected > 0 /\ granted = 0)
        => startButtonDisplay # "none"

\* a rejected sphere page on which frames have run
C6_Witness ==
    /\ page = "sphere"
    /\ rejected > 0
    /\ granted = 0
    /\ renderers > 0
    /\ tickParity = 0

\* C7: on the rose page the click itself hides the start control; after a
\* rejection it stays hidden, no tick has run or is scheduled, and the script
\* has logged nothing.
C7_RoseRejection ==
    page = "rose" =>
        /\ clicks > 0 => startButtonDisplay = "none"
        /\ rejected > 0 =>
             /\ startButtonDisplay = "none"
             /\ ~ticked
             /\ CallbacksPending = 0
             /\ consoleErrors = 0

C7_Witness == page = "rose" /\ rejected > 0 /\ pending = 0

\* C8, as stated: the arrays a tick reads have 256 elements on the sphere
\* page and 2048 on the rose page.
C8_LengthIsFftSize ==
    /\ (page = "sphere" /\ frequencyData # Undefined)
           => Length(frequencyData) = 256
    /\ (page = "rose" /\ ticked) => snapshotLens = <<2048, 2048>>

\* C8, amended: the arrays a tick reads have 128 elements on the sphere page
\* and 1024 on the rose page (half the configured FFT size), in every tick.
C8_LengthIsBinCount ==
    /\ (page = "sphere" /\ frequencyData # Undefined)
           => Length(frequencyData) = 128
    /\ (page = "rose" /\ ticked) => snapshotLens = <<1024, 1024>>

\* a rose page that has drawn from a second pair of arrays
C8_Witness == page = "rose" /\ ticked /\ tickParity = 0

\* C9: every tick of animate run as an animation-frame callback moves each
\* rotation a twentieth of the way to its pointer target (to the nearest
\* fixed-point unit), rotation.x toward mouseY and rotation.y toward mouseX,
\* and a step that is not a tick leaves the rotation alone.
C9_EveryTickEases ==
    [][(page = "sphere" /\ sphere # Undefined /\ ~SettleStep) =>
         IF TickStep
         THEN /\ 2 * Abs(20 * (sphere'.rotation.x - sphere.rotation.x)
                          - (mouseY - sphere.rotation.x)) <= 20
              /\ 2 * Abs(20 * (sphere'.rotation.y - sphere.rotation.y)
                          - (mouseX - sphere.rotation.y)) <= 20
         ELSE sphere'.rotation = sphere.rotation]_vars

\* On the ticks of animate that run to their end the rotation does ease: a
\* twentieth of the way to the target, never past it and never away from it.
EasesWhenTickCompletes ==
    [][(page = "sphere" /\ frequencyData # Undefined /\ TickStep /\ ~SettleStep) =>
         /\ sphere'.rotation.x = Ease(sphere.rotation.x, mouseY)
         /\ sphere'.rotation.y = Ease(sphere.rotation.y, mouseX)
         /\ Abs(mouseY - sphere'.rotation.x) <= Abs(mouseY - sphere.rotation.x)
         /\ Abs(mouseX - sphere'.rotation.y) <= Abs(mouseX - sphere.rotation.y)
         /\ (mouseY - sphere'.rotation.x) * (mouseY - sphere.rotation.x) >= 0
         /\ (mouseX - sphere'.rotation.y) * (mouseX - sphere.rotation.y) >= 0]_vars

\* the smallest index holding the maximum of a non-empty array
FirstMaxIndex(array) ==
    CHOOSE k \in 0..(Length(array) - 1) :
        /\ \A j \in 0..(Length(array) - 1) : At(array, j) <= At(array, k)
        /\ \A j \in 0..(k - 1) : At(array, j) < At(array, k)

\* C10: the hue computed from an array of n > 0 bytes is (k / n) * 360 for k
\* the smallest index holding the maximum, lies in [0, 360), and is that of
\* the array read last, whatever was read before.
C10_HueOfFirstMaximum ==
    dataArray # Undefined =>
        LET n == Length(dataArray)
            k == FirstMaxIndex(dataArray)
        IN /\ FracEq(color.h, <<k * 360, n>>)
           /\ 0 <= color.h[1] /\ color.h[1] < 360 * color.h[2]

\* a second maximum equal to the first: the earlier index wins
C10_Witness ==
    /\ dataArray = FromSeq(<<0, 255, 128, 255>>)
    /\ color.h = <<360, 4>>

=============================================================================
